---- MODULE Spec2Model ----
(***************************************************************************)
(* Model of the to-do storage layer (agent/storage.py), of the tools that   *)
(* call it (agent/todo_agent.py), of the CLI session (main.py), of the     *)
(* maintenance commands (manage.py) and of the web sessions                *)
(* (todo_gradio/gradio_app.py).                                            *)
(*                                                                         *)
(* Spec: a sequence of calls on one storage, file-backed or in-memory.      *)
(* SpecPair: the same sequence of calls on one storage of each variant.    *)
(* SpecRace: two callers on one backing file, with the load, the change    *)
(* and the save of a call as separate steps.                               *)
(* SpecIds: the calls that assign, remove or overwrite ids.                *)
(* SpecFields: creates followed by updates, direct and through the tool.   *)
(* SpecGone: the calls that follow a delete, up to the next create.        *)
(* SpecProjects: items with and without project, read by project.          *)
(* SpecOrder: collections of three items, for the order of the items.      *)
(* SpecAbsent: update and delete with ids that are and are not there.      *)
(* SpecEdit: a backing file that is edited between the calls.              *)
(* SpecSave: updates with a value the save cannot write.                   *)
(* SpecTools: the four tools on a storage, the file readable or not.       *)
(* SpecStart: the program starting on an absent file, ending, restarting.  *)
(* SpecManage: manage.py reset and seed between the calls of the store.    *)
(* SpecCli: the CLI loop: inputs, agent runs that return or raise, saves.  *)
(* SpecGradio: page loads and storage calls of two browser sessions.       *)
(***************************************************************************)
EXTENDS Integers, Sequences, FiniteSets, TLC

(* ---------------------------- bounds ----------------------------------- *)
MaxItems == 2        \* longest collection explored
MaxId == 3           \* largest id a create may assign in the exploration
MaxClock == 1        \* the clock runs 0..MaxClock
MaxUpdates == 1      \* update calls explored in one run
MaxRaceCalls == 4    \* calls explored in one run of the two callers
MaxOrderItems == 3   \* longest collection explored where the order is checked
MaxInputs == 14      \* user inputs explored over all runs of the CLI
MaxFails == 1        \* agent runs that raise, over all runs of the CLI
MaxToolTurns == 3    \* the runs that call a tool are among the first inputs
MaxInstances == 3    \* InMemoryTodoStorage objects alive at one time
MaxChatCalls == 3    \* storage calls of one session after a page load

(* ---------------------------- values ----------------------------------- *)
None == "<None>"

\* TodoStatus: the three members and their values
NOT_STARTED == "TodoStatus.NOT_STARTED"
IN_PROGRESS == "TodoStatus.IN_PROGRESS"
COMPLETED == "TodoStatus.COMPLETED"
StatusMembers == {NOT_STARTED, IN_PROGRESS, COMPLETED}
StatusValues == {"Not Started", "In Progress", "Completed"}

\* TodoStatus(v): the member whose value is v (ValueError outside StatusValues)
TodoStatus(v) ==
  CASE v = "Not Started" -> NOT_STARTED
    [] v = "In Progress" -> IN_PROGRESS
    [] v = "Completed" -> COMPLETED

\* member.value, which is also what json.dump writes for a str-Enum member
StatusValue(m) ==
  CASE m = NOT_STARTED -> "Not Started"
    [] m = IN_PROGRESS -> "In Progress"
    [] m = COMPLETED -> "Completed"

\* the conversion both update methods attempt on a str status:
\* TodoStatus(s), and on ValueError the string is kept as it is
ConvertStatus(s) == IF s \in StatusValues THEN TodoStatus(s) ELSE s

\* str.lower on the project names used
Lower(s) ==
  CASE s \in {"Work", "WORK"} -> "work"
    [] s = "Other" -> "other"
    [] OTHER -> s

(* ---------------------------- inputs ----------------------------------- *)
CreateNames == {"a", "", None}
CreateDescriptions == {None, "d"}
CreateProjects == {None, "Work"}
Ids == 1..MaxId
QueryProjects == {"work", "Other"}

\* update_data: keys is the set of keys of the dict; a field outside keys
\* carries a filler that is never read
EmptyPayload ==
  [keys |-> {}, name |-> None, description |-> None, project |-> None,
   status |-> None, id |-> 0, created_at |-> 0]
Payloads ==
  {EmptyPayload,
   [EmptyPayload EXCEPT !.keys = {"name"}, !.name = "b"],
   [EmptyPayload EXCEPT !.keys = {"description"}, !.description = "d"],
   [EmptyPayload EXCEPT !.keys = {"project"}, !.project = None],
   [EmptyPayload EXCEPT !.keys = {"status"}, !.status = "Completed"],
   [EmptyPayload EXCEPT !.keys = {"status"}, !.status = "Done"],
   [EmptyPayload EXCEPT !.keys = {"created_at"}, !.created_at = MaxClock + 1],
   [EmptyPayload EXCEPT !.keys = {"name", "description"}, !.name = "b",
                        !.description = None]}
  \cup {[EmptyPayload EXCEPT !.keys = {"id"}, !.id = i] : i \in Ids}

(* ---------------------------- TodoItem --------------------------------- *)
\* TodoItem(...) as create builds it: status defaults to NOT_STARTED
NewItem(id, name, description, project, now) ==
  [id |-> id, name |-> name, description |-> description, project |-> project,
   status |-> NOT_STARTED, created_at |-> now, updated_at |-> now]

\* pydantic validation of the constructor arguments: name is a required str,
\* description and project are Optional
ValidName(name) == name # None

\* pydantic validation of one JSON record in _load_todos
ValidRecord(r) == ValidName(r.name) /\ r.status \in StatusValues

\* TodoItem(**record): the status string becomes the enum member
ParseRecord(r) == [r EXCEPT !.status = TodoStatus(r.status)]

\* item.model_dump() written by json.dump: a member is written as its value,
\* anything else that sits in the status field is written as it is
DumpItem(t) ==
  [t EXCEPT !.status = IF t.status \in StatusMembers THEN StatusValue(t.status)
                       ELSE t.status]

\* _save_todos: the whole list is dumped
SaveTodos(todos) == [i \in DOMAIN todos |-> DumpItem(todos[i])]

\* _load_todos: every record is validated; one bad record fails the load
LoadOk(f) == \A i \in DOMAIN f : ValidRecord(f[i])
LoadTodos(f) == [i \in DOMAIN f |-> ParseRecord(f[i])]

(* ---------------------------- helpers ---------------------------------- *)
RECURSIVE SeqMax(_)
SeqMax(s) == IF s = <<>> THEN 0
             ELSE LET m == SeqMax(Tail(s)) IN IF Head(s) > m THEN Head(s) ELSE m

IdsOf(todos) == [i \in DOMAIN todos |-> todos[i].id]

\* JsonTodoStorage._get_next_id: max([t.id for t in todos], default=0) + 1
LenNextId(todos) == Len(todos) + 1
NoIncrement(todos) == IF todos = <<>> THEN 1 ELSE SeqMax(IdsOf(todos))
GetNextId(todos) == SeqMax(IdsOf(todos)) + 1

\* position of the first item with the id, 0 when there is none
FirstIndex(todos, item_id) ==
  IF \E i \in DOMAIN todos : todos[i].id = item_id
  THEN CHOOSE i \in DOMAIN todos :
         /\ todos[i].id = item_id
         /\ \A j \in DOMAIN todos : todos[j].id = item_id => i <= j
  ELSE 0

\* [t for t in todos if t.id != item_id]
RECURSIVE WithoutId(_, _)
WithoutId(todos, item_id) ==
  IF todos = <<>> THEN <<>>
  ELSE IF Head(todos).id = item_id THEN WithoutId(Tail(todos), item_id)
       ELSE <<Head(todos)>> \o WithoutId(Tail(todos), item_id)

\* (mutant) the project is compared as it is written
RECURSIVE ByProjectExact(_, _)
ByProjectExact(todos, project) ==
  IF todos = <<>> THEN <<>>
  ELSE LET t == Head(todos)
           rest == ByProjectExact(Tail(todos), project)
       IN IF t.project # None /\ t.project # "" /\ t.project = project
          THEN <<t>> \o rest ELSE rest

\* [t for t in todos if t.project and t.project.lower() == project.lower()]
RECURSIVE ByProject(_, _)
ByProject(todos, project) ==
  IF todos = <<>> THEN <<>>
  ELSE LET t == Head(todos)
           rest == ByProject(Tail(todos), project)
       IN IF t.project # None /\ t.project # "" /\ Lower(t.project) = Lower(project)
          THEN <<t>> \o rest ELSE rest

\* the dict the update methods apply: a str status goes through ConvertStatus
\* (the model's None is not a str and is left alone)
Converted(pl) ==
  IF "status" \in pl.keys /\ pl.status # None
  THEN [pl EXCEPT !.status = ConvertStatus(pl.status)] ELSE pl

\* model_copy(update=update_data) and the setattr loop: every key of the dict
\* replaces the field of that name, without validation; updated_at is set to now
ApplySkipNone(t, pl, now) ==
  [id |-> IF "id" \in pl.keys THEN pl.id ELSE t.id,
   name |-> IF "name" \in pl.keys /\ pl.name # None THEN pl.name ELSE t.name,
   description |-> IF "description" \in pl.keys /\ pl.description # None
                   THEN pl.description ELSE t.description,
   project |-> IF "project" \in pl.keys /\ pl.project # None
               THEN pl.project ELSE t.project,
   status |-> IF "status" \in pl.keys /\ pl.status # None THEN pl.status ELSE t.status,
   created_at |-> IF "created_at" \in pl.keys THEN pl.created_at ELSE t.created_at,
   updated_at |-> now]
ApplyUpdate(t, pl, now) ==
  [id |-> IF "id" \in pl.keys THEN pl.id ELSE t.id,
   name |-> IF "name" \in pl.keys THEN pl.name ELSE t.name,
   description |-> IF "description" \in pl.keys THEN pl.description ELSE t.description,
   project |-> IF "project" \in pl.keys THEN pl.project ELSE t.project,
   status |-> IF "status" \in pl.keys THEN pl.status ELSE t.status,
   created_at |-> IF "created_at" \in pl.keys THEN pl.created_at ELSE t.created_at,
   updated_at |-> now]

(* ---------------------------- results ---------------------------------- *)
RetItem(t) == [kind |-> "item", item |-> t]
RetList(ts) == [kind |-> "list", items |-> ts]
RetBool(b) == [kind |-> "bool", val |-> b]
RetNone == [kind |-> "none"]
RetRaise == [kind |-> "raise", error |-> "ValidationError"]
RetTypeError == [kind |-> "raise", error |-> "TypeError"]
RetStr(s) == [kind |-> "str", text |-> s]

(* ---------------------------- state ------------------------------------ *)
VARIABLES
  variant,      \* the storage under the calls: "json", "mem", or "both" side by side
  file,         \* JsonTodoStorage: the records in the backing file
  mem_todos,    \* InMemoryTodoStorage._todos
  mem_next_id,  \* InMemoryTodoStorage._next_id
  clock,        \* datetime.now(timezone.utc)
  op,           \* the last call made
  retJ,         \* what the call returned on the file-backed store
  retM,         \* what the call returned on the in-memory store
  everJ,        \* ids the file-backed create returned before the last call
  everM,        \* ids the in-memory create returned before the last call
  prevJ,        \* id the create before the last call returned, in an unbroken
  prevM,        \*   run of creates (0: none)
  nupd,         \* update calls made so far
  doc,          \* JsonTodoStorage: the JSON document in the backing file, an
                \*   "array" of records or the empty "object" {}; "absent"
                \*   when there is no file
  gone,         \* id of the last delete call that returned, 0 when there is
                \*   none or a create was called after it
  pc,           \* SpecRace: where each caller stands
  call,         \* SpecRace: the call each caller is making
  todos,        \* SpecRace: each caller's local list
  ret,          \* SpecRace: what each caller's call returned
  base,         \* SpecRace: the file content each caller loaded
  stamp,        \* SpecRace: the time each caller read for its change
  behind,       \* SpecRace: behind[p]: the callers that had loaded and not yet
                \*   saved when p saved
  started,      \* SpecRace: calls started so far
  built,        \* a JsonTodoStorage object has been constructed
  history,      \* main.py: the list `history` of the running CLI
  session,      \* main.py: the history in the session file
  cli,          \* main.py: where the CLI stands: "off", "prompt", "run"
  turn,         \* main.py: user inputs taken so far, over all runs of the CLI
  failed,       \* main.py: the inputs whose agent run raised
  heap,         \* gradio_app.py: the InMemoryTodoStorage objects alive
  gstore,       \* gradio_app.py: storage_state of each browser session, as
                \*   the position of the object in heap (0: page not loaded)
  glog,         \* gradio_app.py: the storage calls of each session since its
                \*   page load
  gret          \* gradio_app.py: what each session's last storage call returned

seqVars == <<variant, mem_todos, mem_next_id, op, retJ, retM, everJ, everM, prevJ, prevM,
            nupd, doc, gone>>
raceVars == <<pc, call, todos, ret, base, stamp, behind, started>>
cliVars == <<history, session, cli, turn, failed>>
gradioVars == <<heap, gstore, glog, gret>>
appVars == <<built, cliVars, gradioVars>>
vars == <<file, clock, seqVars, raceVars, appVars>>

Procs == {1, 2}
NoCall == [name |-> "none"]

RaceInit ==
  /\ pc = [p \in Procs |-> "idle"]
  /\ call = [p \in Procs |-> NoCall]
  /\ todos = [p \in Procs |-> <<>>]
  /\ ret = [p \in Procs |-> RetNone]
  /\ base = [p \in Procs |-> <<>>]
  /\ stamp = [p \in Procs |-> 0]
  /\ behind = [p \in Procs |-> {}]
  /\ started = 0

Sessions == {1, 2}
\* a slot of heap that holds no object
NoStore == [todos |-> <<>>, next_id |-> 0]

\* no CLI running, an empty session file, no page loaded
AppInit ==
  /\ history = <<>>
  /\ session = <<>>
  /\ cli = "off"
  /\ turn = 0
  /\ failed = {}
  /\ heap = [i \in 1..MaxInstances |-> NoStore]
  /\ gstore = [s \in Sessions |-> 0]
  /\ glog = [s \in Sessions |-> <<>>]
  /\ gret = [s \in Sessions |-> RetNone]

\* both stores before any call: the file-backed one with the JSON document d
\* in its file (or the file "absent") and constructed or not, an empty list,
\* the counter at 1
StoresWith(d, b) ==
  /\ file = <<>>
  /\ mem_todos = <<>>
  /\ mem_next_id = 1
  /\ clock = 0
  /\ op = NoCall
  /\ retJ = RetNone
  /\ retM = RetNone
  /\ everJ = {}
  /\ everM = {}
  /\ prevJ = 0
  /\ prevM = 0
  /\ nupd = 0
  /\ doc = d
  /\ gone = 0
  /\ built = b
  /\ RaceInit
  /\ AppInit

\* both stores as constructed: an empty file, an empty list, the counter at 1
StoresInit == StoresWith("array", TRUE)

\* the calls go to one storage, of either variant
Init == variant \in {"json", "mem"} /\ StoresInit

\* the same calls go to one storage of each variant
InitPair == variant = "both" /\ StoresInit

JOn == variant \in {"json", "both"}
MOn == variant \in {"mem", "both"}

\* time passes between calls
Tick ==
  /\ clock < MaxClock
  /\ clock' = clock + 1
  /\ UNCHANGED <<file, seqVars, raceVars, appVars>>

(* ------------------------ JsonTodoStorage ------------------------------ *)
\* What each mutating method does between _load_todos and _save_todos, on the
\* loaded list ts: the list it goes on to save (save tells whether it saves at
\* all) and what it returns.

\* (mutant) the new item is put at the front of the list
CreateBodyFront(ts, name, description, project, now) ==
  IF ~ValidName(name) THEN [save |-> FALSE, todos |-> ts, ret |-> RetRaise]
  ELSE LET new_item == NewItem(GetNextId(ts), name, description, project, now)
       IN [save |-> TRUE, todos |-> <<new_item>> \o ts, ret |-> RetItem(new_item)]
CreateBody(ts, name, description, project, now) ==
  IF ~ValidName(name) THEN [save |-> FALSE, todos |-> ts, ret |-> RetRaise]
  ELSE LET new_item == NewItem(GetNextId(ts), name, description, project, now)
       IN [save |-> TRUE, todos |-> Append(ts, new_item), ret |-> RetItem(new_item)]

\* (mutant) an update that finds no item is applied to the first item
UpdateBodyFirst(ts, item_id, update_data, now) ==
  LET f == FirstIndex(ts, item_id)
      i == IF f = 0 /\ ts # <<>> THEN 1 ELSE f
  IN IF i = 0 THEN [save |-> FALSE, todos |-> ts, ret |-> RetNone]
     ELSE LET updated_item == ApplyUpdate(ts[i], Converted(update_data), now)
          IN [save |-> TRUE, todos |-> [ts EXCEPT ![i] = updated_item],
              ret |-> RetItem(updated_item)]
UpdateBody(ts, item_id, update_data, now) ==
  LET i == FirstIndex(ts, item_id)
  IN IF i = 0 THEN [save |-> FALSE, todos |-> ts, ret |-> RetNone]
     ELSE LET updated_item == ApplyUpdate(ts[i], Converted(update_data), now)
          IN [save |-> TRUE, todos |-> [ts EXCEPT ![i] = updated_item],
              ret |-> RetItem(updated_item)]

\* (mutant) delete saves and reports a removal whether or not it removed
DeleteBodyTrue(ts, item_id) ==
  [save |-> TRUE, todos |-> WithoutId(ts, item_id), ret |-> RetBool(TRUE)]
DeleteBody(ts, item_id) ==
  LET new_todos == WithoutId(ts, item_id)
  IN IF Len(new_todos) = Len(ts)
     THEN [save |-> FALSE, todos |-> ts, ret |-> RetBool(FALSE)]
     ELSE [save |-> TRUE, todos |-> new_todos, ret |-> RetBool(TRUE)]

\* json.dump encodes str, int, None and the str-Enum members; NotJson stands
\* for a value it raises TypeError on (a set, a datetime)
NotJson == "<not JSON serializable>"
CanDumpItem(t) == t.name # NotJson /\ t.description # NotJson /\ t.project # NotJson
CanDump(ts) == \A i \in DOMAIN ts : CanDumpItem(ts[i])

\* position of the first item json.dump raises on, 0 when there is none
FirstBad(ts) ==
  IF CanDump(ts) THEN 0
  ELSE CHOOSE i \in DOMAIN ts :
         /\ ~CanDumpItem(ts[i])
         /\ \A j \in DOMAIN ts : ~CanDumpItem(ts[j]) => i <= j

\* the text json.dump leaves behind when it raises inside a record: the record
\* is cut off, and json.load of the file raises
Torn ==
  [id |-> 0, name |-> None, description |-> None, project |-> None,
   status |-> "<torn>", created_at |-> 0, updated_at |-> 0]

\* open(path, "w") empties the file, then json.dump with indent=2 writes the
\* list piece by piece: the file becomes the dumped list, whatever it held
\* before, or what was written up to the value json.dump raises on
AppendFile(f, ts) == f \o SaveTodos(ts)
WriteFile(f, ts) ==
  IF CanDump(ts) THEN SaveTodos(ts)
  ELSE SaveTodos(SubSeq(ts, 1, FirstBad(ts) - 1)) \o <<Torn>>

\* a whole call with nothing in between: load, body, save
Stored(f, body) ==
  [file |-> IF body.save THEN WriteFile(f, body.todos) ELSE f,
   ret |-> IF body.save /\ ~CanDump(body.todos) THEN RetTypeError ELSE body.ret,
   saved |-> body.save]
Raised(f) == [file |-> f, ret |-> RetRaise, saved |-> FALSE]

JsonCreate(f, name, description, project, now) ==
  IF ~LoadOk(f) THEN Raised(f)
  ELSE Stored(f, CreateBody(LoadTodos(f), name, description, project, now))

\* (mutant) read_all answers from the list the store had when it was
\* constructed, not from the file
JsonReadAllStale(f) == RetList(<<>>)
JsonReadAll(f) ==
  IF ~LoadOk(f) THEN RetRaise ELSE RetList(LoadTodos(f))

JsonReadById(f, item_id) ==
  IF ~LoadOk(f) THEN RetRaise
  ELSE LET ts == LoadTodos(f)
           i == FirstIndex(ts, item_id)
       IN IF i = 0 THEN RetNone ELSE RetItem(ts[i])

JsonReadByProject(f, project) ==
  IF ~LoadOk(f) THEN RetRaise ELSE RetList(ByProject(LoadTodos(f), project))

JsonUpdate(f, item_id, update_data, now) ==
  IF ~LoadOk(f) THEN Raised(f)
  ELSE Stored(f, UpdateBody(LoadTodos(f), item_id, update_data, now))

JsonDelete(f, item_id) ==
  IF ~LoadOk(f) THEN Raised(f)
  ELSE Stored(f, DeleteBody(LoadTodos(f), item_id))

(* ---------------------- InMemoryTodoStorage ---------------------------- *)
\* Each operator gives _todos and _next_id after the call and what it returns.

\* _get_next_id runs while the constructor arguments are evaluated, before
\* TodoItem validates them: the counter advances even when create raises
MemCreateReuse(ts, next_id, name, description, project, now) ==
  IF ~ValidName(name) THEN [todos |-> ts, next_id |-> next_id, ret |-> RetRaise]
  ELSE LET new_item == NewItem(GetNextId(ts), name, description, project, now)
       IN [todos |-> Append(ts, new_item), next_id |-> next_id,
           ret |-> RetItem(new_item)]
MemCreate(ts, next_id, name, description, project, now) ==
  IF ~ValidName(name) THEN [todos |-> ts, next_id |-> next_id + 1, ret |-> RetRaise]
  ELSE LET new_item == NewItem(next_id, name, description, project, now)
       IN [todos |-> Append(ts, new_item), next_id |-> next_id + 1,
           ret |-> RetItem(new_item)]

MemReadAll(ts) == RetList(ts)

MemReadById(ts, item_id) ==
  LET i == FirstIndex(ts, item_id)
  IN IF i = 0 THEN RetNone ELSE RetItem(ts[i])

MemReadByProject(ts, project) == RetList(ByProject(ts, project))

MemUpdate(ts, item_id, update_data, now) ==
  LET i == FirstIndex(ts, item_id)
  IN IF i = 0 THEN [todos |-> ts, ret |-> RetNone]
     ELSE LET item_to_update == ApplyUpdate(ts[i], Converted(update_data), now)
          IN [todos |-> [ts EXCEPT ![i] = item_to_update],
              ret |-> RetItem(item_to_update)]

MemDelete(ts, item_id) ==
  LET new_todos == WithoutId(ts, item_id)
  IN [todos |-> new_todos, ret |-> RetBool(Len(new_todos) < Len(ts))]

(* ------------------------ tool adapter --------------------------------- *)
ToolNames == {None, "b"}
ToolDescriptions == {None}
ToolProjects == {None}
ToolStatuses == {None, "", "Completed", "Done"}

\* update_todo, lines 106-107: the four arguments, without the None ones
UpdateFields(name, description, project, status) ==
  [keys |-> {k \in {"name", "description", "project", "status"} :
               \/ k = "name" /\ name # None
               \/ k = "description" /\ description # None
               \/ k = "project" /\ project # None
               \/ k = "status" /\ status # None},
   name |-> name, description |-> description, project |-> project,
   status |-> status, id |-> 0, created_at |-> 0]

\* update_todo up to the storage call: the error string it returns early,
\* or "call" when it goes on to storage.update
UpdateTodoCheck(name, description, project, status) ==
  IF status # None /\ status # "" /\ status \notin StatusValues
  THEN "Error: Invalid status"
  ELSE IF UpdateFields(name, description, project, status).keys = {}
  THEN "Error: No fields to update were provided."
  ELSE "call"

\* update_todo after the storage call: the string for its outcome
UpdateTodoText(r) ==
  CASE r.kind = "item" -> "Updated to-do item"
    [] r.kind = "none" -> "To-do item not found"
    [] r.kind = "raise" -> "Error updating to-do"

(* ------------------------ the calls ------------------------------------ *)
\* A call acts on the storage the variant names; the other one stays as it is
\* and its result stays RetNone.

\* max_items and max_id bound the exploration: the list the create appends to
\* and the id it assigns
CreateWithin(max_items, max_id, name, description, project) ==
  LET j == IF JOn THEN JsonCreate(file, name, description, project, clock)
           ELSE [file |-> file, ret |-> retJ, saved |-> FALSE]
      m == IF MOn THEN MemCreate(mem_todos, mem_next_id, name, description, project, clock)
           ELSE [todos |-> mem_todos, next_id |-> mem_next_id, ret |-> retM]
  IN /\ JOn => Len(file) < max_items
     /\ JOn /\ LoadOk(file) => GetNextId(LoadTodos(file)) <= max_id
     /\ MOn => Len(mem_todos) < max_items /\ mem_next_id <= max_id
     /\ file' = j.file
     /\ doc' = IF j.saved THEN "array" ELSE doc
     /\ mem_todos' = m.todos
     /\ mem_next_id' = m.next_id
     /\ op' = [name |-> "create", id |-> 0,
               arg |-> <<name, description, project>>]
     /\ retJ' = j.ret
     /\ retM' = m.ret
     /\ everJ' = IF retJ.kind = "item" /\ op.name = "create"
                 THEN everJ \cup {retJ.item.id} ELSE everJ
     /\ everM' = IF retM.kind = "item" /\ op.name = "create"
                 THEN everM \cup {retM.item.id} ELSE everM
     /\ prevJ' = IF op.name # "create" THEN 0
                 ELSE IF retJ.kind = "item" THEN retJ.item.id ELSE prevJ
     /\ prevM' = IF op.name # "create" THEN 0
                 ELSE IF retM.kind = "item" THEN retM.item.id ELSE prevM
     /\ UNCHANGED <<variant, clock, nupd, raceVars, appVars>>

Create(name, description, project) ==
  CreateWithin(MaxItems, MaxId, name, description, project) /\ UNCHANGED gone

\* what every call but create does to the history of creates
AfterCreate ==
  /\ everJ' = IF retJ.kind = "item" /\ op.name = "create"
              THEN everJ \cup {retJ.item.id} ELSE everJ
  /\ everM' = IF retM.kind = "item" /\ op.name = "create"
              THEN everM \cup {retM.item.id} ELSE everM
  /\ prevJ' = 0
  /\ prevM' = 0

ReadAll ==
  /\ op' = [name |-> "read_all", id |-> 0]
  /\ retJ' = IF JOn THEN JsonReadAll(file) ELSE retJ
  /\ retM' = IF MOn THEN MemReadAll(mem_todos) ELSE retM
  /\ AfterCreate
  /\ UNCHANGED <<variant, file, mem_todos, mem_next_id, clock, nupd, doc, gone, raceVars, appVars>>

ReadById(item_id) ==
  /\ op' = [name |-> "read_by_id", id |-> item_id]
  /\ retJ' = IF JOn THEN JsonReadById(file, item_id) ELSE retJ
  /\ retM' = IF MOn THEN MemReadById(mem_todos, item_id) ELSE retM
  /\ AfterCreate
  /\ UNCHANGED <<variant, file, mem_todos, mem_next_id, clock, nupd, doc, gone, raceVars, appVars>>

ReadByProject(project) ==
  /\ op' = [name |-> "read_by_project", id |-> 0, project |-> project]
  /\ retJ' = IF JOn THEN JsonReadByProject(file, project) ELSE retJ
  /\ retM' = IF MOn THEN MemReadByProject(mem_todos, project) ELSE retM
  /\ AfterCreate
  /\ UNCHANGED <<variant, file, mem_todos, mem_next_id, clock, nupd, doc, gone, raceVars, appVars>>

Update(item_id, update_data) ==
  LET j == IF JOn THEN JsonUpdate(file, item_id, update_data, clock)
           ELSE [file |-> file, ret |-> retJ, saved |-> FALSE]
      m == IF MOn THEN MemUpdate(mem_todos, item_id, update_data, clock)
           ELSE [todos |-> mem_todos, ret |-> retM]
  IN /\ nupd < MaxUpdates
     /\ file' = j.file
     /\ mem_todos' = m.todos
     /\ op' = [name |-> "update", id |-> item_id, data |-> update_data]
     /\ retJ' = j.ret
     /\ retM' = m.ret
     /\ AfterCreate
     /\ nupd' = nupd + 1
     /\ doc' = IF j.saved THEN "array" ELSE doc
     /\ UNCHANGED <<variant, mem_next_id, clock, gone, raceVars, appVars>>

DeleteItem(item_id) ==
  LET j == IF JOn THEN JsonDelete(file, item_id)
           ELSE [file |-> file, ret |-> retJ, saved |-> FALSE]
      m == IF MOn THEN MemDelete(mem_todos, item_id)
           ELSE [todos |-> mem_todos, ret |-> retM]
  IN /\ file' = j.file
     /\ mem_todos' = m.todos
     /\ op' = [name |-> "delete", id |-> item_id]
     /\ retJ' = j.ret
     /\ retM' = m.ret
     /\ AfterCreate
     /\ doc' = IF j.saved THEN "array" ELSE doc
     /\ UNCHANGED <<variant, mem_next_id, clock, nupd, raceVars, appVars>>

Delete(item_id) == DeleteItem(item_id) /\ UNCHANGED gone

\* the update_todo tool over the storage
UpdateTodo(item_id, name, description, project, status) ==
  LET check == UpdateTodoCheck(name, description, project, status)
      update_fields == UpdateFields(name, description, project, status)
      j == JsonUpdate(file, item_id, update_fields, clock)
      m == MemUpdate(mem_todos, item_id, update_fields, clock)
  IN /\ nupd < MaxUpdates
     /\ nupd' = nupd + 1
     /\ op' = [name |-> "update_todo", id |-> item_id,
               arg |-> <<name, description, project, status>>]
     /\ AfterCreate
     /\ doc' = IF JOn /\ check = "call" /\ j.saved THEN "array" ELSE doc
     /\ IF check = "call"
        THEN /\ file' = IF JOn THEN j.file ELSE file
             /\ mem_todos' = IF MOn THEN m.todos ELSE mem_todos
             /\ retJ' = IF JOn THEN RetStr(UpdateTodoText(j.ret)) ELSE retJ
             /\ retM' = IF MOn THEN RetStr(UpdateTodoText(m.ret)) ELSE retM
        ELSE /\ UNCHANGED <<file, mem_todos>>
             /\ retJ' = IF JOn THEN RetStr(check) ELSE retJ
             /\ retM' = IF MOn THEN RetStr(check) ELSE retM
     /\ UNCHANGED <<variant, mem_next_id, clock, gone, raceVars, appVars>>

CreateCall == \E n \in CreateNames, d \in CreateDescriptions, p \in CreateProjects :
                Create(n, d, p)
ReadByIdCall == \E i \in Ids : ReadById(i)
ReadByProjectCall == \E p \in QueryProjects : ReadByProject(p)
UpdateCall == \E i \in Ids, pl \in Payloads : Update(i, pl)
DeleteCall == \E i \in Ids : Delete(i)
UpdateTodoCall == \E i \in Ids, n \in ToolNames, d \in ToolDescriptions,
                     p \in ToolProjects, s \in ToolStatuses : UpdateTodo(i, n, d, p, s)

Next ==
  \/ Tick
  \/ CreateCall
  \/ ReadAll
  \/ ReadByIdCall
  \/ ReadByProjectCall
  \/ UpdateCall
  \/ DeleteCall
  \/ UpdateTodoCall

Spec == Init /\ [][Next]_vars

(* ------------------------ both variants side by side ------------------- *)
PairPayloads ==
  {[EmptyPayload EXCEPT !.keys = {"name"}, !.name = "b"],
   [EmptyPayload EXCEPT !.keys = {"status"}, !.status = "Completed"]}

NextPair ==
  \/ Tick
  \/ \E n \in {"a", ""}, p \in CreateProjects : Create(n, None, p)
  \/ ReadAll
  \/ \E i \in Ids : ReadById(i)
  \/ \E p \in QueryProjects : ReadByProject(p)
  \/ \E i \in Ids, pl \in PairPayloads : Update(i, pl)
  \/ \E i \in Ids : Delete(i)

SpecPair == InitPair /\ [][NextPair]_vars

(* ------------------------ calls that decide the ids -------------------- *)
\* The ids a collection holds change by create, by delete and by an update
\* whose payload has an "id" key; a read between two creates ends the run of
\* creates.
IdPayloads == {[EmptyPayload EXCEPT !.keys = {"id"}, !.id = i] : i \in Ids}

NextIds ==
  \/ Tick
  \/ \E n \in {"a", None} : Create(n, None, None)
  \/ ReadAll
  \/ \E i \in Ids, pl \in IdPayloads : Update(i, pl)
  \/ \E i \in Ids : Delete(i)

SpecIds == Init /\ [][NextIds]_vars

(* ------------------------ calls that change fields ---------------------- *)
NextFields ==
  \/ \E a \in {<<None, None>>, <<"d", "Work">>} : Create("a", a[1], a[2])
  \/ UpdateCall
  \/ UpdateTodoCall

SpecFields == Init /\ [][NextFields]_vars

(* ------------------------ two callers, one file ------------------------ *)
\* JsonTodoStorage takes no lock: between a caller's load and its save the
\* other caller may load and save.
RaceCalls ==
  {[name |-> "create", id |-> 0, arg |-> <<n, None, None>>] : n \in {"a", "b"}}
  \cup {[name |-> "update", id |-> i, data |-> pl] : i \in Ids, pl \in PairPayloads}
  \cup {[name |-> "delete", id |-> i] : i \in Ids}

\* the body of the call c on the loaded list ts
RaceBody(c, ts, now) ==
  CASE c.name = "create" -> CreateBody(ts, c.arg[1], c.arg[2], c.arg[3], now)
    [] c.name = "update" -> UpdateBody(ts, c.id, c.data, now)
    [] c.name = "delete" -> DeleteBody(ts, c.id)

InitRace == variant = "json" /\ StoresInit

\* todos = self._load_todos()
RaceLoad(p, c) ==
  /\ pc[p] = "idle"
  /\ started < MaxRaceCalls
  /\ started' = started + 1
  /\ call' = [call EXCEPT ![p] = c]
  /\ behind' = [behind EXCEPT ![p] = {}]
  /\ IF LoadOk(file)
     THEN /\ pc' = [pc EXCEPT ![p] = "loaded"]
          /\ todos' = [todos EXCEPT ![p] = LoadTodos(file)]
          /\ base' = [base EXCEPT ![p] = file]
          /\ UNCHANGED ret
     ELSE /\ pc' = [pc EXCEPT ![p] = "done"]
          /\ ret' = [ret EXCEPT ![p] = RetRaise]
          /\ UNCHANGED <<todos, base>>
  /\ UNCHANGED <<file, clock, seqVars, appVars, stamp>>

\* the lines between the load and the save; a call that has nothing to save
\* returns here
RaceChange(p) ==
  LET body == RaceBody(call[p], todos[p], clock)
  IN /\ pc[p] = "loaded"
     /\ call[p].name = "create" =>
          Len(todos[p]) < MaxItems /\ GetNextId(todos[p]) <= MaxId
     /\ todos' = [todos EXCEPT ![p] = body.todos]
     /\ ret' = [ret EXCEPT ![p] = body.ret]
     /\ stamp' = [stamp EXCEPT ![p] = clock]
     /\ pc' = [pc EXCEPT ![p] = IF body.save THEN "saving" ELSE "done"]
     /\ UNCHANGED <<file, clock, seqVars, appVars, call, base, behind, started>>

\* self._save_todos(todos)
RaceSave(p) ==
  /\ pc[p] = "saving"
  /\ file' = WriteFile(file, todos[p])
  /\ ret' = IF CanDump(todos[p]) THEN ret ELSE [ret EXCEPT ![p] = RetTypeError]
  /\ pc' = [pc EXCEPT ![p] = "done"]
  /\ behind' = [behind EXCEPT ![p] = {q \in Procs \ {p} : pc[q] \in {"loaded", "saving"}}]
  /\ UNCHANGED <<clock, seqVars, appVars, call, todos, base, stamp, started>>

\* the call has returned; the caller is free for its next call
RaceReturn(p) ==
  /\ pc[p] = "done"
  /\ pc' = [pc EXCEPT ![p] = "idle"]
  /\ call' = [call EXCEPT ![p] = NoCall]
  /\ todos' = [todos EXCEPT ![p] = <<>>]
  /\ ret' = [ret EXCEPT ![p] = RetNone]
  /\ base' = [base EXCEPT ![p] = <<>>]
  /\ stamp' = [stamp EXCEPT ![p] = 0]
  /\ behind' = [q \in Procs |-> IF q = p THEN {} ELSE behind[q] \ {p}]
  /\ UNCHANGED <<file, clock, seqVars, appVars, started>>

NextRace ==
  \/ \E p \in Procs, c \in RaceCalls : RaceLoad(p, c)
  \/ \E p \in Procs : RaceChange(p)
  \/ \E p \in Procs : RaceSave(p)
  \/ \E p \in Procs : RaceReturn(p)

SpecRace == InitRace /\ [][NextRace]_vars

(* ------------------------ what follows a delete ------------------------ *)
\* The calls of Next with the last delete that returned kept in gone, until
\* the next create.
CreateAfter(name) ==
  CreateWithin(MaxItems, MaxId, name, None, None) /\ gone' = 0

DeleteThen(item_id) ==
  /\ DeleteItem(item_id)
  /\ gone' = IF (JOn /\ retJ'.kind = "bool") \/ (MOn /\ retM'.kind = "bool")
             THEN item_id ELSE gone

NextGone ==
  \/ CreateAfter("a")
  \/ \E i \in Ids : DeleteThen(i)
  \/ \E i \in Ids, pl \in IdPayloads : Update(i, pl)
  \/ \E i \in Ids : ReadById(i)

SpecGone == Init /\ [][NextGone]_vars

(* ------------------------ calls that read by project ------------------- *)
ItemProjects == {None, "", "Work", "WORK", "Other"}
CaseQueries == {"work", "WORK", "Other", ""}

NextProjects ==
  \/ \E p \in ItemProjects : Create("a", None, p)
  \/ \E q \in CaseQueries : ReadByProject(q)
  \/ \E i \in Ids : Update(i, [EmptyPayload EXCEPT !.keys = {"project"}])
  \/ \E i \in Ids : Delete(i)

SpecProjects == Init /\ [][NextProjects]_vars

(* ------------------------ calls that may find nothing ------------------ *)
\* update and delete with ids the collection holds and ids it does not hold,
\* while time passes
AbsentPayloads ==
  {[EmptyPayload EXCEPT !.keys = {"name"}, !.name = "b"],
   [EmptyPayload EXCEPT !.keys = {"id"}, !.id = 1]}

NextAbsent ==
  \/ Tick
  \/ Create("a", None, None)
  \/ \E i \in Ids, pl \in AbsentPayloads : Update(i, pl)
  \/ \E i \in Ids : Delete(i)

SpecAbsent == Init /\ [][NextAbsent]_vars

(* ------------------------ calls that decide the order ------------------ *)
\* collections of up to MaxOrderItems items, so that a delete leaves two
OrderPayloads == {[EmptyPayload EXCEPT !.keys = {"name"}, !.name = "b"]} \cup IdPayloads

NextOrder ==
  \/ CreateWithin(MaxOrderItems, MaxId, "a", None, None) /\ UNCHANGED gone
  \/ ReadAll
  \/ \E i \in Ids, pl \in OrderPayloads : Update(i, pl)
  \/ \E i \in Ids : Delete(i)

SpecOrder == Init /\ [][NextOrder]_vars

(* ------------------------ a file edited between calls ------------------ *)
\* _load_todos reads the file afresh in every call, so each call sees what was
\* put into the file since the last one.  Two contents that are not an array
\* of conforming records: the empty object {}, and an array with a record
\* whose status is outside the enumeration.
BadRecord ==
  [id |-> 1, name |-> "a", description |-> None, project |-> None,
   status |-> "Done", created_at |-> 0, updated_at |-> 0]
EditedContents == {"object", "bad record"}

ExternalEdit(content) ==
  /\ JOn
  /\ file' = IF content = "object" THEN <<>> ELSE <<BadRecord>>
  /\ doc' = IF content = "object" THEN "object" ELSE "array"
  /\ op' = [name |-> "edit", id |-> 0, content |-> content]
  /\ retJ' = RetNone
  /\ AfterCreate
  /\ UNCHANGED <<variant, mem_todos, mem_next_id, clock, retM, nupd, gone, raceVars, appVars>>

InitEdit == variant = "json" /\ StoresInit

NextEdit ==
  \/ \E c \in EditedContents : ExternalEdit(c)
  \/ Create("a", None, None)
  \/ ReadAll
  \/ \E i \in Ids : ReadById(i)
  \/ \E q \in QueryProjects : ReadByProject(q)
  \/ \E i \in Ids, pl \in PairPayloads : Update(i, pl)
  \/ \E i \in Ids : Delete(i)

SpecEdit == InitEdit /\ [][NextEdit]_vars

(* ------------------------ a save that fails ---------------------------- *)
\* update puts any value into the item; json.dump raises on some of them
SavePayloads ==
  {[EmptyPayload EXCEPT !.keys = {"name"}, !.name = "b"],
   [EmptyPayload EXCEPT !.keys = {"description"}, !.description = NotJson]}

NextSave ==
  \/ Create("a", None, None)
  \/ ReadAll
  \/ \E i \in Ids, pl \in SavePayloads : Update(i, pl)
  \/ \E i \in Ids : Delete(i)

SpecSave == Init /\ [][NextSave]_vars

(* ------------------------ the four tools ------------------------------- *)
\* The tools of get_tools(storage): each calls the storage inside a try block
\* and returns a string.  The texts are kept without the ids and names they
\* quote; a JSON text carries the records it lists.
RetJson(ts) == [kind |-> "str", text |-> "<json>", items |-> SaveTodos(ts)]

\* Python truthiness of an Optional[str] argument
Truthy(s) == s # None /\ s # ""

\* create_todo: the string for the outcome of storage.create
CreateTodoResult(r) ==
  CASE r.kind = "item" -> RetStr("Created to-do item")
    [] r.kind = "raise" -> RetStr("Error creating to-do")

\* (mutant) read_todos without its except clause
ReadTodosUncaught(by_id, project, r) ==
  CASE r.kind = "raise" -> r
    [] r.kind = "none" -> RetStr("To-do item with ID not found.")
    [] r.kind = "item" -> RetJson(<<r.item>>)
    [] r.kind = "list" ->
         IF ~by_id /\ Truthy(project) /\ r.items = <<>>
         THEN RetStr("No to-do items found for project")
         ELSE RetJson(r.items)
\* read_todos: the string for the outcome of the read it made; by_id stands
\* for `item_id is not None`
ReadTodosResult(by_id, project, r) ==
  CASE r.kind = "raise" -> RetStr("Error reading to-dos")
    [] r.kind = "none" -> RetStr("To-do item with ID not found.")
    [] r.kind = "item" -> RetJson(<<r.item>>)
    [] r.kind = "list" ->
         IF ~by_id /\ Truthy(project) /\ r.items = <<>>
         THEN RetStr("No to-do items found for project")
         ELSE RetJson(r.items)

\* delete_todo: the string for the outcome of storage.delete
DeleteTodoResult(r) ==
  CASE r.kind = "raise" -> RetStr("Error deleting to-do")
    [] r = RetBool(TRUE) -> RetStr("Deleted to-do item")
    [] r = RetBool(FALSE) -> RetStr("To-do item with id not found.")

CreateTodo(name, description, project) ==
  LET j == JsonCreate(file, name, description, project, clock)
      m == MemCreate(mem_todos, mem_next_id, name, description, project, clock)
  IN /\ JOn => Len(file) < MaxItems /\ GetNextId(file) <= MaxId
     /\ MOn => Len(mem_todos) < MaxItems /\ mem_next_id <= MaxId
     /\ op' = [name |-> "create_todo", id |-> 0, arg |-> <<name, description, project>>]
     /\ file' = IF JOn THEN j.file ELSE file
     /\ doc' = IF JOn /\ j.saved THEN "array" ELSE doc
     /\ mem_todos' = IF MOn THEN m.todos ELSE mem_todos
     /\ mem_next_id' = IF MOn THEN m.next_id ELSE mem_next_id
     /\ retJ' = IF JOn THEN CreateTodoResult(j.ret) ELSE retJ
     /\ retM' = IF MOn THEN CreateTodoResult(m.ret) ELSE retM
     /\ AfterCreate
     /\ UNCHANGED <<variant, clock, nupd, gone, raceVars, appVars>>

\* read_todos: by id when item_id is given, else by project when project is
\* truthy, else everything
ReadTodos(by_id, item_id, project) ==
  LET j == IF by_id THEN JsonReadById(file, item_id)
           ELSE IF Truthy(project) THEN JsonReadByProject(file, project)
           ELSE JsonReadAll(file)
      m == IF by_id THEN MemReadById(mem_todos, item_id)
           ELSE IF Truthy(project) THEN MemReadByProject(mem_todos, project)
           ELSE MemReadAll(mem_todos)
  IN /\ op' = [name |-> "read_todos", id |-> IF by_id THEN item_id ELSE 0,
               by_id |-> by_id, project |-> project]
     /\ retJ' = IF JOn THEN ReadTodosResult(by_id, project, j) ELSE retJ
     /\ retM' = IF MOn THEN ReadTodosResult(by_id, project, m) ELSE retM
     /\ AfterCreate
     /\ UNCHANGED <<variant, file, mem_todos, mem_next_id, clock, nupd, doc, gone, raceVars, appVars>>

DeleteTodo(item_id) ==
  LET j == JsonDelete(file, item_id)
      m == MemDelete(mem_todos, item_id)
  IN /\ op' = [name |-> "delete_todo", id |-> item_id]
     /\ file' = IF JOn THEN j.file ELSE file
     /\ doc' = IF JOn /\ j.saved THEN "array" ELSE doc
     /\ mem_todos' = IF MOn THEN m.todos ELSE mem_todos
     /\ retJ' = IF JOn THEN DeleteTodoResult(j.ret) ELSE retJ
     /\ retM' = IF MOn THEN DeleteTodoResult(m.ret) ELSE retM
     /\ AfterCreate
     /\ UNCHANGED <<variant, mem_next_id, clock, nupd, gone, raceVars, appVars>>

ReadProjects == {None, "", "work"}

NextTools ==
  \/ \E p \in CreateProjects : CreateTodo("a", None, p)
  \/ \E i \in Ids, p \in ReadProjects : ReadTodos(TRUE, i, p)
  \/ \E p \in ReadProjects : ReadTodos(FALSE, 0, p)
  \/ \E i \in Ids, s \in ToolStatuses : UpdateTodo(i, None, None, None, s)
  \/ \E i \in Ids : DeleteTodo(i)

SpecTools == Init /\ [][NextTools]_vars

(* ------------------------ constructing the store ----------------------- *)
\* (mutant) the constructor writes the empty list whether or not a file exists
EnsureAlways(d, f) == [doc |-> "array", file |-> <<>>]
\* _ensure_data_file: json.dump([], f) when os.path.exists(path) is false
EnsureDataFile(d, f) ==
  IF d = "absent" THEN [doc |-> "array", file |-> <<>>] ELSE [doc |-> d, file |-> f]

\* JsonTodoStorage(): the program starts and constructs its store
Construct ==
  LET e == EnsureDataFile(doc, file)
  IN /\ ~built
     /\ built' = TRUE
     /\ doc' = e.doc
     /\ file' = e.file
     /\ op' = [name |-> "construct", id |-> 0]
     /\ retJ' = RetNone
     /\ AfterCreate
     /\ UNCHANGED <<variant, mem_todos, mem_next_id, clock, retM, nupd, gone, raceVars,
                    cliVars, gradioVars>>

\* the program ends; the file stays
Exit ==
  /\ built
  /\ built' = FALSE
  /\ op' = [name |-> "exit", id |-> 0]
  /\ retJ' = RetNone
  /\ AfterCreate
  /\ UNCHANGED <<variant, file, mem_todos, mem_next_id, clock, retM, nupd, doc, gone,
                 raceVars, cliVars, gradioVars>>

InitStart == variant = "json" /\ StoresWith("absent", FALSE)

NextStart ==
  \/ Construct
  \/ Exit
  \/ Tick
  \/ built /\ \E n \in {"a", ""} : Create(n, None, None)
  \/ built /\ ReadAll
  \/ built /\ \E i \in Ids : Delete(i)

SpecStart == InitStart /\ [][NextStart]_vars

(* ------------------------ manage.py ------------------------------------ *)
\* reset and seed write data/todos.json from outside the store; run from the
\* src directory that is the file JsonTodoStorage reads.  The seed file is
\* any JSON file; the ones used here hold records that load.
SeedRecord(id) ==
  [id |-> id, name |-> "seeded", description |-> None, project |-> None,
   status |-> "In Progress", created_at |-> 0, updated_at |-> 0]
SeedFiles == {<<SeedRecord(2)>>, <<SeedRecord(1), SeedRecord(2)>>}

\* manage.py reset: json.dump([]) into the to-do file and {"history": []} into
\* the session file
ManageReset ==
  /\ JOn
  /\ file' = <<>>
  /\ doc' = "array"
  /\ session' = <<>>
  /\ op' = [name |-> "reset", id |-> 0]
  /\ retJ' = RetNone
  /\ AfterCreate
  /\ UNCHANGED <<variant, mem_todos, mem_next_id, clock, retM, nupd, gone, raceVars,
                 built, history, cli, turn, failed, gradioVars>>

\* manage.py seed: the seed file's JSON is written over the to-do file
ManageSeed(seed_data) ==
  /\ JOn
  /\ file' = seed_data
  /\ doc' = "array"
  /\ op' = [name |-> "seed", id |-> 0, content |-> seed_data]
  /\ retJ' = RetNone
  /\ AfterCreate
  /\ UNCHANGED <<variant, mem_todos, mem_next_id, clock, retM, nupd, gone, raceVars, appVars>>

InitManage == variant = "json" /\ StoresInit

NextManage ==
  \/ Tick
  \/ ManageReset
  \/ \E sd \in SeedFiles : ManageSeed(sd)
  \/ \E n \in {"a", ""} : Create(n, None, None)
  \/ ReadAll
  \/ \E i \in Ids : ReadById(i)

SpecManage == InitManage /\ [][NextManage]_vars

(* ------------------------ main.py: the CLI session --------------------- *)
\* A message is kept by its role and by the user input it belongs to; the
\* items a run adds (assistant messages, tool calls and their outputs) are
\* never of role "user".
MAX_TURNS == 12

UserMessage(t) == [role |-> "user", turn |-> t]
\* result.to_input_list() is the input followed by the items the run made
Replies(t) ==
  {<<[role |-> "assistant", turn |-> t]>>}
  \cup (IF t <= MaxToolTurns
        THEN {<<[role |-> "tool", turn |-> t], [role |-> "assistant", turn |-> t]>>}
        ELSE {})

\* [i for i, msg in enumerate(history) if msg.get("role") == "user"]
RECURSIVE UserIndicesFrom(_, _)
UserIndicesFrom(h, i) ==
  IF i > Len(h) THEN <<>>
  ELSE (IF h[i].role = "user" THEN <<i>> ELSE <<>>) \o UserIndicesFrom(h, i + 1)
UserMessageIndices(h) == UserIndicesFrom(h, 1)

\* (mutant) the cut is made one user message too early
TrimLate(h) ==
  LET user_message_indices == UserMessageIndices(h)
      n == Len(user_message_indices)
  IN IF n > MAX_TURNS + 1 THEN SubSeq(h, user_message_indices[n - MAX_TURNS], Len(h))
     ELSE h
\* lines 99-104: history[user_message_indices[-MAX_TURNS]:] when there are
\* more than MAX_TURNS user messages
Trim(h) ==
  LET user_message_indices == UserMessageIndices(h)
      n == Len(user_message_indices)
  IN IF n > MAX_TURNS
     THEN SubSeq(h, user_message_indices[n - MAX_TURNS + 1], Len(h))
     ELSE h

\* history = load_session()
CliStart ==
  /\ cli = "off"
  /\ cli' = "prompt"
  /\ history' = session
  /\ UNCHANGED <<file, clock, seqVars, raceVars, built, session, turn, failed, gradioVars>>

\* the user types exit or quit: the loop ends, nothing is saved
CliExit ==
  /\ cli = "prompt"
  /\ cli' = "off"
  /\ history' = <<>>
  /\ UNCHANGED <<file, clock, seqVars, raceVars, built, session, turn, failed, gradioVars>>

\* the user's input is appended and the history is trimmed
CliInput ==
  /\ cli = "prompt"
  /\ turn < MaxInputs
  /\ turn' = turn + 1
  /\ history' = Trim(Append(history, UserMessage(turn + 1)))
  /\ cli' = "run"
  /\ UNCHANGED <<file, clock, seqVars, raceVars, built, session, failed, gradioVars>>

\* Runner.run returns: history = result.to_input_list(); save_session(history)
RunOk(reply) ==
  /\ cli = "run"
  /\ history' = history \o reply
  /\ session' = history \o reply
  /\ cli' = "prompt"
  /\ UNCHANGED <<file, clock, seqVars, raceVars, built, turn, failed, gradioVars>>

\* (mutant) the except branch saves the history before it returns
RunFailSaves ==
  /\ cli = "run"
  /\ Cardinality(failed) < MaxFails
  /\ failed' = failed \cup {turn}
  /\ cli' = "off"
  /\ history' = <<>>
  /\ session' = history
  /\ UNCHANGED <<file, clock, seqVars, raceVars, built, turn, gradioVars>>
\* Runner.run raises: the except branch prints the error and returns from main
RunFail ==
  /\ cli = "run"
  /\ Cardinality(failed) < MaxFails
  /\ failed' = failed \cup {turn}
  /\ cli' = "off"
  /\ history' = <<>>
  /\ UNCHANGED <<file, clock, seqVars, raceVars, built, session, turn, gradioVars>>

NextCli ==
  \/ CliStart
  \/ CliExit
  \/ CliInput
  \/ \E r \in Replies(turn) : RunOk(r)
  \/ RunFail

InitCli == variant = "json" /\ StoresInit

SpecCli == InitCli /\ [][NextCli]_vars

(* ------------------------ gradio_app.py: one store per session --------- *)
\* storage_state holds a reference to an InMemoryTodoStorage object; heap is
\* the objects, gstore[s] the one session s refers to.  agent_chat hands the
\* object to get_tools and returns the same object as the new state.
FreshStore == [todos |-> <<>>, next_id |-> 1]

\* the storage calls the agent makes through its tools
ChatCalls(now) ==
  {[name |-> "create", id |-> 0, at |-> now],
   [name |-> "delete", id |-> 1, at |-> now],
   [name |-> "read_all", id |-> 0, at |-> now]}

\* the call c on the object st: the object after it and what it returns
MemApply(st, c) ==
  CASE c.name = "create" ->
         LET m == MemCreate(st.todos, st.next_id, "a", None, None, c.at)
         IN [store |-> [todos |-> m.todos, next_id |-> m.next_id], ret |-> m.ret]
    [] c.name = "delete" ->
         LET m == MemDelete(st.todos, c.id)
         IN [store |-> [st EXCEPT !.todos = m.todos], ret |-> m.ret]
    [] c.name = "read_all" -> [store |-> st, ret |-> MemReadAll(st.todos)]

\* the slots of heap no session refers to once session s has let go of its
\* object; an object without a reference is gone
Dropped(s) ==
  [i \in DOMAIN heap |->
     IF \E t \in Sessions \ {s} : gstore[t] = i THEN heap[i] ELSE NoStore]
FirstFree(h) == CHOOSE i \in DOMAIN h : h[i] = NoStore /\ \A j \in 1..(i - 1) : h[j] # NoStore

\* (mutant) every page load hands out the one object made first
PageLoadShared(s) ==
  /\ heap' = IF heap[1] = NoStore THEN [heap EXCEPT ![1] = FreshStore] ELSE heap
  /\ gstore' = [gstore EXCEPT ![s] = 1]
  /\ glog' = [glog EXCEPT ![s] = <<>>]
  /\ gret' = [gret EXCEPT ![s] = RetNone]
  /\ UNCHANGED <<file, clock, seqVars, raceVars, built, cliVars>>
\* demo.load(initial_load): the session's storage_state becomes a new
\* InMemoryTodoStorage()
PageLoad(s) ==
  LET h == Dropped(s)
      new == FirstFree(h)
  IN /\ heap' = [h EXCEPT ![new] = FreshStore]
     /\ gstore' = [gstore EXCEPT ![s] = new]
     /\ glog' = [glog EXCEPT ![s] = <<>>]
     /\ gret' = [gret EXCEPT ![s] = RetNone]
     /\ UNCHANGED <<file, clock, seqVars, raceVars, built, cliVars>>

\* agent_chat of session s: one storage call on the session's object
ChatCall(s, c) ==
  LET r == MemApply(heap[gstore[s]], c)
  IN /\ gstore[s] # 0
     /\ Len(glog[s]) < MaxChatCalls
     /\ c.name = "create" => Len(heap[gstore[s]].todos) < MaxItems
     /\ heap' = [heap EXCEPT ![gstore[s]] = r.store]
     /\ gret' = [gret EXCEPT ![s] = r.ret]
     /\ glog' = [glog EXCEPT ![s] = Append(glog[s], c)]
     /\ UNCHANGED <<file, clock, seqVars, raceVars, built, cliVars, gstore>>

InitGradio == variant = "mem" /\ StoresInit

NextGradio ==
  \/ \E s \in Sessions : PageLoad(s)
  \/ \E s \in Sessions, c \in ChatCalls(clock) : ChatCall(s, c)

SpecGradio == InitGradio /\ [][NextGradio]_vars

(* ======================== the claims =================================== *)
Range(f) == {f[i] : i \in DOMAIN f}
Distinct(ts) == \A i, j \in DOMAIN ts : i # j => ts[i].id # ts[j].id
Front(f) == SubSeq(f, 1, Len(f) - 1)
Last(f) == f[Len(f)]

\* C1: after any sequence of create, update and delete calls on an empty store,
\* no two items of the collection have the same id, in either variant.
\* Refuted by the code (Spec): update applies an "id" key of the payload.
C1_UniqueIds == Distinct(file) /\ Distinct(mem_todos)

\* C2: when two mutating calls on one file both load before either saves, and
\* both succeed, the file is afterwards exactly what the second writer made of
\* the content it loaded: the first writer's save has left no trace in it
\* (SpecRace; p is the first writer, q the second).
Succeeded(p) == ret[p].kind = "item" \/ ret[p] = RetBool(TRUE)
Overwrote(q, p) ==
  /\ pc[p] = "done" /\ pc[q] = "done"
  /\ q \in behind[p]
  /\ Succeeded(p) /\ Succeeded(q)
C2_LastWriterWins ==
  \A p \in Procs : \A q \in Procs \ {p} :
    Overwrote(q, p) =>
      file = SaveTodos(RaceBody(call[q], LoadTodos(base[q]), stamp[q]).todos)

\* C2 witness: both created an item from the same loaded content; the file
\* holds the second writer's item and not the first writer's.
C2_Witness ==
  \E p \in Procs : \E q \in Procs \ {p} :
    /\ Overwrote(q, p)
    /\ call[p].name = "create" /\ call[q].name = "create"
    /\ base[p] = base[q]
    /\ DumpItem(ret[q].item) \in Range(file)
    /\ DumpItem(ret[p].item) \notin Range(file)

\* C3: the same calls on a file-backed and on an in-memory store return the
\* same results (timestamps apart).  Refuted by the code (SpecPair): after the
\* highest id was deleted, the file-backed create gives it out again and the
\* in-memory create does not.
NoTimes(t) == [t EXCEPT !.created_at = 0, !.updated_at = 0]
Comparable(r) ==
  CASE r.kind = "item" -> RetItem(NoTimes(r.item))
    [] r.kind = "list" -> RetList([i \in DOMAIN r.items |-> NoTimes(r.items[i])])
    [] OTHER -> r
C3_SameResults == Comparable(retJ) = Comparable(retM)

\* C4: the file-backed create assigns (maximum id in the file) + 1, or 1 for
\* an empty file; with only item 2 left it assigns 3, and the id of a deleted
\* highest item is assigned again.
C4_MaxPlusOne ==
  (JOn /\ op.name = "create" /\ retJ.kind = "item") =>
     /\ file # <<>> /\ Last(file) = DumpItem(retJ.item)
     /\ retJ.item.id = SeqMax(IdsOf(Front(file))) + 1
     /\ Front(file) = <<>> => retJ.item.id = 1
     /\ IdsOf(Front(file)) = <<2>> => retJ.item.id = 3

\* C4 witness: a create that assigned an id an earlier create had assigned.
C4_Witness ==
  /\ JOn /\ op.name = "create" /\ retJ.kind = "item"
  /\ retJ.item.id \in everJ

\* C5: the in-memory create returns an id greater than every id the instance
\* returned before, whatever was deleted in between; the counter stays ahead
\* of every id given out.
C5_NeverReassigned ==
  MOn =>
    /\ \A i \in everM : i < mem_next_id
    /\ (op.name = "create" /\ retM.kind = "item") =>
         /\ \A i \in everM : retM.item.id > i
         /\ retM.item.id < mem_next_id

\* C5 witness: item 1, the highest, was deleted and the next create returned 2.
C5_Witness ==
  /\ MOn /\ op.name = "create" /\ retM.kind = "item"
  /\ everM = {1} /\ retM.item.id = 2
  /\ Len(mem_todos) = 1

\* C6: in a run of create calls with no other call in between, each create
\* returns an id greater than the one before, in either variant.
C6_CreateRunIncreasing ==
  (op.name = "create") =>
     /\ (JOn /\ retJ.kind = "item" /\ prevJ # 0) => retJ.item.id > prevJ
     /\ (MOn /\ retM.kind = "item" /\ prevM # 0) => retM.item.id > prevM

\* C6 witness: the second create of a run has returned.
C6_Witness ==
  /\ op.name = "create"
  /\ \/ JOn /\ retJ.kind = "item" /\ prevJ # 0
     \/ MOn /\ retM.kind = "item" /\ prevM # 0

(* ------------------------ update, field by field ----------------------- *)
FieldNames == {"id", "name", "description", "project", "status", "created_at"}
Nullable == {"name", "description", "project", "status"}
IsNull(pl, k) == k \in Nullable /\ pl[k] = None

\* the step is a call of storage.update, of the update_todo tool
UpdateStep == nupd' = nupd + 1 /\ op'.name = "update"
ToolStep == nupd' = nupd + 1 /\ op'.name = "update_todo"

\* the position of the item the call finds, 0 when it finds none (or, on the
\* file-backed store, when the load fails)
FoundJ == IF JOn /\ LoadOk(file) THEN FirstIndex(file, op'.id) ELSE 0
FoundM == IF MOn THEN FirstIndex(mem_todos, op'.id) ELSE 0

\* C7 as stated: update changes only the fields present in the payload with a
\* non-null value; an omitted field and a field given as None keep their value.
\* Refuted by the code (Spec): update writes a None of the payload into the item.
C7_NullKeepsValue ==
  [][UpdateStep =>
       \A k \in FieldNames :
         (k \notin op'.data.keys \/ IsNull(op'.data, k)) =>
            /\ FoundJ # 0 => file'[FoundJ][k] = file[FoundJ][k]
            /\ FoundM # 0 => mem_todos'[FoundM][k] = mem_todos[FoundM][k]]_vars

\* C7 amended: update on an existing item replaces exactly the fields that are
\* keys of the payload, a None value included, and keeps every omitted field;
\* the update_todo tool drops its None arguments before it calls update, so a
\* field whose tool argument is None keeps its value.
ToolKept(old, new, a) ==
  /\ a[1] = None => new.name = old.name
  /\ a[2] = None => new.description = old.description
  /\ a[3] = None => new.project = old.project
  /\ a[4] = None => new.status = old.status
  /\ new.id = old.id /\ new.created_at = old.created_at
C7_KeysReplaceFields ==
  [][/\ UpdateStep =>
          \A k \in FieldNames :
            /\ FoundJ # 0 =>
                 file'[FoundJ][k] = IF k \in op'.data.keys THEN op'.data[k]
                                    ELSE file[FoundJ][k]
            /\ FoundM # 0 =>
                 mem_todos'[FoundM][k] =
                    IF k \in op'.data.keys THEN Converted(op'.data)[k]
                    ELSE mem_todos[FoundM][k]
     /\ ToolStep =>
          /\ FoundJ # 0 => ToolKept(file[FoundJ], file'[FoundJ], op'.arg)
          /\ FoundM # 0 => ToolKept(mem_todos[FoundM], mem_todos'[FoundM], op'.arg)
    ]_vars

\* C7 witness: update has written the None of its payload into the project of
\* an existing item.
C7_Witness ==
  /\ op.name = "update" /\ op.data.keys = {"project"} /\ op.data.project = None
  /\ \/ JOn /\ retJ.kind = "item" /\ file[FirstIndex(file, op.id)].project = None
     \/ MOn /\ retM.kind = "item"
            /\ mem_todos[FirstIndex(mem_todos, op.id)].project = None

\* C8: update never overwrites the id or the created_at of the item, whatever
\* the payload.  Refuted by the code (Spec): an "id" or "created_at" key of the
\* payload is applied like any other.
C8_IdAndCreatedAtKept ==
  [][UpdateStep =>
       /\ FoundJ # 0 => /\ file'[FoundJ].id = file[FoundJ].id
                        /\ file'[FoundJ].created_at = file[FoundJ].created_at
       /\ FoundM # 0 => /\ mem_todos'[FoundM].id = mem_todos[FoundM].id
                        /\ mem_todos'[FoundM].created_at = mem_todos[FoundM].created_at
    ]_vars

\* C9: update with a status outside the three values fails and stores nothing,
\* so every stored status is one of the three values.  Refuted by the code
\* (Spec): the unknown string is kept, written to the item and returned.
C9_StatusEnumerated ==
  /\ \A i \in DOMAIN file : file[i].status \in StatusValues
  /\ \A i \in DOMAIN mem_todos : mem_todos[i].status \in StatusMembers
  /\ (op.name = "update" /\ "status" \in op.data.keys
        /\ op.data.status \notin StatusValues) =>
       retJ.kind # "item" /\ retM.kind # "item"

\* C10: create with an empty name fails and stores nothing, so no stored item
\* has an empty name.  Refuted by the code (Spec): "" is a valid str for the
\* name field and the item is stored.
C10_NameNotEmpty ==
  /\ \A i \in DOMAIN file : file[i].name # ""
  /\ \A i \in DOMAIN mem_todos : mem_todos[i].name # ""
  /\ (op.name = "create" /\ op.arg[1] = "") =>
       retJ.kind # "item" /\ retM.kind # "item"

(* ------------------------ calls that find nothing ---------------------- *)
\* C11: update with an id that no item has returns None and leaves the store
\* as it was: the same items with the same fields, updated_at included, in the
\* same order (the file-backed store being readable).
C11_AbsentUpdate ==
  [][UpdateStep =>
       /\ (JOn /\ LoadOk(file) /\ FirstIndex(file, op'.id) = 0) =>
             retJ' = RetNone /\ file' = file
       /\ (MOn /\ FirstIndex(mem_todos, op'.id) = 0) =>
             retM' = RetNone /\ mem_todos' = mem_todos /\ mem_next_id' = mem_next_id
    ]_vars

\* C11 witness: update found no item in a store that holds items stamped before
\* the time of the call.
C11_Witness ==
  /\ op.name = "update"
  /\ \/ /\ JOn /\ retJ = RetNone /\ file # <<>>
        /\ FirstIndex(file, op.id) = 0
        /\ \A i \in DOMAIN file : file[i].updated_at < clock
     \/ /\ MOn /\ retM = RetNone /\ mem_todos # <<>>
        /\ FirstIndex(mem_todos, op.id) = 0
        /\ \A i \in DOMAIN mem_todos : mem_todos[i].updated_at < clock

\* the step is a call of delete
DeleteStep == op'.name = "delete" /\ clock' = clock

\* C12: delete returns True exactly when an item with the id was in the
\* collection before the call; otherwise it returns False and leaves the
\* collection, and the file, as it was (the file-backed store being readable).
C12_DeleteReports ==
  [][DeleteStep =>
       /\ (JOn /\ LoadOk(file)) =>
            /\ retJ' = RetBool(\E i \in DOMAIN file : file[i].id = op'.id)
            /\ retJ' = RetBool(FALSE) => file' = file
            /\ retJ' = RetBool(TRUE) => \A i \in DOMAIN file' : file'[i].id # op'.id
       /\ MOn =>
            /\ retM' = RetBool(\E i \in DOMAIN mem_todos : mem_todos[i].id = op'.id)
            /\ retM' = RetBool(FALSE) => mem_todos' = mem_todos
            /\ retM' = RetBool(TRUE) =>
                 \A i \in DOMAIN mem_todos' : mem_todos'[i].id # op'.id
    ]_vars

\* C12 witness: delete returned False on a store that holds items.
C12_Witness ==
  /\ op.name = "delete"
  /\ \/ JOn /\ retJ = RetBool(FALSE) /\ file # <<>>
     \/ MOn /\ retM = RetBool(FALSE) /\ mem_todos # <<>>

(* ------------------------ reads after a change ------------------------- *)
\* C13: after delete(id) has returned, read_by_id(id) returns None as long as
\* no create was called in between.  Refuted by the code (SpecGone): an update
\* in between gives the id to another item.
C13_DeletedStaysAbsent ==
  (op.name = "read_by_id" /\ gone # 0 /\ op.id = gone) =>
     /\ JOn => retJ = RetNone
     /\ MOn => retM = RetNone

\* C14: create followed at once by read_by_id with the returned id gives an
\* item equal in every field to the one create returned; the new item has
\* status Not Started and created_at = updated_at.  Refuted by the code (Spec):
\* after an update has put the in-memory counter's next value into the id of an
\* older item, read_by_id finds the older item first.
FreshItem(t) == t.status = NOT_STARTED /\ t.created_at = t.updated_at
C14_CreateThenRead ==
  [][/\ (op'.name = "create" /\ clock' = clock) =>
          /\ (JOn /\ retJ'.kind = "item") => FreshItem(retJ'.item)
          /\ (MOn /\ retM'.kind = "item") => FreshItem(retM'.item)
     /\ (op.name = "create" /\ op'.name = "read_by_id") =>
          /\ (JOn /\ retJ.kind = "item" /\ op'.id = retJ.item.id) => retJ' = retJ
          /\ (MOn /\ retM.kind = "item" /\ op'.id = retM.item.id) => retM' = retM
    ]_vars

(* ------------------------ timestamps ----------------------------------- *)
\* C15: an update whose payload has no field never changes updated_at, and an
\* update that changes a field sets updated_at to the time of the call.
\* Refuted by the code (Spec): update with an empty payload on an existing item
\* sets updated_at to the time of the call.
C15_NoOpKeepsUpdatedAt ==
  [][UpdateStep =>
       /\ FoundJ # 0 =>
            file'[FoundJ].updated_at =
               IF op'.data.keys = {} THEN file[FoundJ].updated_at ELSE clock
       /\ FoundM # 0 =>
            mem_todos'[FoundM].updated_at =
               IF op'.data.keys = {} THEN mem_todos[FoundM].updated_at ELSE clock
    ]_vars

\* C16: with a clock that never goes back, every stored item has
\* updated_at >= created_at.  Refuted by the code (Spec): update writes a
\* created_at of the payload into the item.
C16_UpdatedNotBeforeCreated ==
  /\ \A i \in DOMAIN file : file[i] # Torn => file[i].updated_at >= file[i].created_at
  /\ \A i \in DOMAIN mem_todos : mem_todos[i].updated_at >= mem_todos[i].created_at

(* ------------------------ read_by_project ------------------------------ *)
\* the names that are equal when letter case is ignored
Folds == {{"work", "Work", "WORK"}, {"other", "Other"}}
SameFold(a, b) == \E c \in Folds : a \in c /\ b \in c
HasProject(t) == t.project \notin {None, ""}
Matching(ts, q) ==
  LET Test(t) == HasProject(t) /\ SameFold(t.project, q)
  IN SelectSeq(ts, Test)

\* C17: read_by_project(p) returns, in collection order, exactly the items
\* whose project is set and equals p when letter case is ignored; an item
\* without project is never returned, queries that differ only in case return
\* the same sequence, and no match gives an empty sequence, not an error (the
\* file-backed store being readable).
C17_ByProject ==
  /\ op.name = "read_by_project" =>
       /\ (JOn /\ LoadOk(file)) => retJ = RetList(Matching(LoadTodos(file), op.project))
       /\ MOn => retM = RetList(Matching(mem_todos, op.project))
  /\ (JOn /\ LoadOk(file)) =>
        JsonReadByProject(file, "work") = JsonReadByProject(file, "WORK")
  /\ MOn => MemReadByProject(mem_todos, "work") = MemReadByProject(mem_todos, "WORK")

\* C17 witness: a query in another letter case returned the one item of the
\* two that has the project; the other item has none.
C17_Witness ==
  /\ op.name = "read_by_project" /\ op.project = "WORK"
  /\ \/ /\ JOn /\ Len(file) = 2 /\ retJ.kind = "list" /\ Len(retJ.items) = 1
        /\ retJ.items[1].project = "Work"
        /\ \E i \in DOMAIN file : file[i].project = None
     \/ /\ MOn /\ Len(mem_todos) = 2 /\ retM.kind = "list" /\ Len(retM.items) = 1
        /\ retM.items[1].project = "Work"
        /\ \E i \in DOMAIN mem_todos : mem_todos[i].project = None

(* ------------------------ insertion order ------------------------------ *)
\* new is old with one item more at the end
Appended(old, new) == new # <<>> /\ Front(new) = old
\* new is old with at most the item at position i replaced
KeptPlace(old, new, i) ==
  /\ Len(new) = Len(old)
  /\ \A j \in DOMAIN old : j # i => new[j] = old[j]
\* new is old without the items of the id, the others as they were and in
\* the order they had
Remaining(old, new, item_id) ==
  LET Other(t) == t.id # item_id IN new = SelectSeq(old, Other)

NonConforming == doc # "array" \/ ~LoadOk(file)

\* C19: while the file holds malformed or non-conforming content, every
\* file-backed call raises and leaves the content as it is.  Refuted by the
\* code (SpecEdit): the empty object {} is read as an empty collection, and
\* the next create writes over it.
C19_BadContentRaises ==
  [][(JOn /\ NonConforming /\ op'.name # "edit" /\ clock' = clock) =>
        retJ'.kind = "raise" /\ file' = file /\ doc' = doc
    ]_vars

\* C20: a file-backed create, update or delete that fails leaves in the file
\* the complete collection from before the call, never an empty or partly
\* written one.  Refuted by the code (SpecSave): _save_todos opens the file for
\* writing, which empties it, before json.dump raises on a value it cannot
\* encode.
C20_FailedSaveKeepsFile ==
  [][(JOn /\ LoadOk(file) /\ op'.name \in {"create", "update", "delete"}
        /\ clock' = clock /\ retJ'.kind = "raise") =>
        file' = file
    ]_vars

(* ------------------------ load and save -------------------------------- *)
\* C21: loading the collection from the file and saving it back unmodified
\* gives a file with the same records, field for field and in the same order,
\* for every file the store has written.  Refuted by the code (Spec): the
\* store writes a status outside the enumeration, and such a file does not
\* load.
C21_RoundTrip ==
  JOn => LoadOk(file) /\ WriteFile(file, LoadTodos(file)) = file

(* ------------------------ update_todo's own checks --------------------- *)
\* the arguments update_todo is to reject: a status that is given and is not
\* one of the three values, or no field besides item_id
Rejectable(a) ==
  \/ a[4] # None /\ a[4] \notin StatusValues
  \/ a[1] = None /\ a[2] = None /\ a[3] = None /\ a[4] = None
IsErrorText(r) ==
  r.kind = "str" /\ r.text \in {"Error: Invalid status", "Error: No fields to update were provided."}

\* C26: update_todo rejects a call whose status is not 'Not Started',
\* 'In Progress' or 'Completed', or that gives no field besides item_id, before
\* it touches the storage: it returns an error string and the collection is
\* unchanged.  Refuted by the code (SpecFields): an empty-string status passes
\* the check and is written into the item.
C26_RejectsBeforeStorage ==
  [][(ToolStep /\ Rejectable(op'.arg)) =>
        /\ file' = file /\ mem_todos' = mem_todos
        /\ JOn => IsErrorText(retJ')
        /\ MOn => IsErrorText(retM')]_vars

(* ------------------------ ids under the race --------------------------- *)
\* C27: under every interleaving of create, update and delete calls of two
\* callers on one file (load and save being separate steps, payloads without
\* an id key), the ids of the items in the file are pairwise distinct after
\* every save (SpecRace).
C27_RaceKeepsIdsDistinct == Cardinality(Range(IdsOf(file))) = Len(file)

\* C27 witness: two creates loaded the same one-item file and were given the
\* same id; the first writer's item is lost and the file holds two items with
\* different ids.
C27_Witness ==
  \E p \in Procs : \E q \in Procs \ {p} :
    /\ Overwrote(q, p)
    /\ call[p].name = "create" /\ call[q].name = "create"
    /\ ret[p].item.id = ret[q].item.id
    /\ Len(base[p]) = 1 /\ base[q] = base[p]
    /\ Len(file) = 2

(* ------------------------ the other items ------------------------------ *)
\* how many times the record t occurs in the collection
Occurrences(ts, t) == Cardinality({i \in DOMAIN ts : ts[i] = t})
\* create: every item of old is in new at the position it had
OldKept(old, new) ==
  Len(new) >= Len(old) /\ \A j \in DOMAIN old : new[j] = old[j]
\* update: every item whose id is not item_id is in new as it was, at the
\* position it had
OthersSame(old, new, item_id) ==
  Len(new) = Len(old) /\ \A j \in DOMAIN old : old[j].id # item_id => new[j] = old[j]
\* delete: every item whose id is not item_id is in new as often as in old
OthersStay(old, new, item_id) ==
  \A t \in Range(old) : t.id # item_id => Occurrences(new, t) = Occurrences(old, t)

\* C28: a mutating call leaves every other item untouched: create changes no
\* existing item, update(id, ...) and delete(id) change or remove no item with
\* another id; every other item keeps all its field values, updated_at
\* included.  Refuted by the code (SpecSave): an update whose save fails
\* leaves a cut-off file, and the other items are gone with it.
C28_OthersUntouched ==
  [][/\ (op'.name = "create" /\ clock' = clock) =>
          /\ JOn => OldKept(file, file')
          /\ MOn => OldKept(mem_todos, mem_todos')
     /\ UpdateStep =>
          /\ JOn => OthersSame(file, file', op'.id)
          /\ MOn => OthersSame(mem_todos, mem_todos', op'.id)
     /\ DeleteStep =>
          /\ JOn => OthersStay(file, file', op'.id)
          /\ MOn => OthersStay(mem_todos, mem_todos', op'.id)
    ]_vars

(* ------------------------ what the tools return ------------------------ *)
ToolOps == {"create_todo", "read_todos", "update_todo", "delete_todo"}

\* C23: each tool returns a string for every outcome of the storage call it
\* makes (an item, not found, an empty collection, an exception) and passes
\* no exception on to the agent runtime (SpecTools).
C23_ToolsReturnStrings ==
  op.name \in ToolOps =>
    /\ JOn => retJ.kind = "str"
    /\ MOn => retM.kind = "str"

\* C23 witness: read_todos was called on a file that does not load and has
\* returned its error string.
C23_Witness ==
  /\ op.name = "read_todos" /\ JOn
  /\ ~LoadOk(file)
  /\ retJ = RetStr("Error reading to-dos")

(* ------------------------ construction --------------------------------- *)
ConstructStep == ~built /\ built'

\* C25: constructing a file-backed store writes the empty collection exactly
\* when the file is absent; when the file exists the construction leaves its
\* content as it is, so a restart keeps the stored items (SpecStart).
C25_ConstructKeepsFile ==
  [][ConstructStep =>
       IF doc = "absent" THEN doc' = "array" /\ file' = <<>>
       ELSE doc' = doc /\ file' = file]_vars

\* C25 witness: the program was restarted on a file that holds items, and the
\* items are still there after the construction.
C25_Witness ==
  /\ op.name = "construct" /\ built
  /\ doc = "array" /\ file # <<>>

(* ------------------------ no cache ------------------------------------- *)
\* what read_by_id is to return on the records f
ByIdOf(f, item_id) ==
  IF FirstIndex(f, item_id) = 0 THEN RetNone
  ELSE RetItem(ParseRecord(f[FirstIndex(f, item_id)]))

\* C22: the file-backed store keeps no cache: every read returns the
\* collection that is in the file at the time of the call, so what manage.py
\* reset or seed wrote is what the very next call sees; after reset read_all
\* returns the empty sequence and create assigns id 1 (SpecManage).
C22_ReadsSeeTheFile ==
  [][/\ op'.name = "read_all" => retJ' = RetList(LoadTodos(file))
     /\ op'.name = "read_by_id" => retJ' = ByIdOf(file, op'.id)
     /\ (op.name = "reset" /\ op'.name = "read_all") => retJ' = RetList(<<>>)
     /\ (op.name = "seed" /\ op'.name = "read_all") =>
           retJ' = RetList(LoadTodos(op.content))
     /\ (op.name = "reset" /\ op'.name = "create" /\ clock' = clock) =>
           /\ retJ'.kind = "item" /\ retJ'.item.id = 1
           /\ file' = <<DumpItem(retJ'.item)>>
    ]_vars

\* C22 witness: create has returned id 1 for the second time; between the two
\* creates the file was reset from outside.
C22_Witness ==
  /\ op.name = "create" /\ retJ.kind = "item"
  /\ retJ.item.id = 1 /\ 1 \in everJ
  /\ file = <<DumpItem(retJ.item)>>

(* ------------------------ the session history -------------------------- *)
UserCount(h) == Len(UserMessageIndices(h))
\* s is the end of h
IsSuffix(s, h) == Len(s) <= Len(h) /\ s = SubSeq(h, Len(h) - Len(s) + 1, Len(h))
InputStep == cli = "prompt" /\ cli' = "run"

\* C24: at every agent invocation and in every session file written, the
\* history holds at most MAX_TURNS user messages; trimming keeps the end of
\* the history from the oldest retained user message on, so the latest
\* messages stay, in their order (SpecCli).
C24_TurnBounded ==
  [][/\ cli' = "run" => UserCount(history') <= MAX_TURNS
     /\ UserCount(session') <= MAX_TURNS
     /\ InputStep =>
          LET h == Append(history, UserMessage(turn'))
          IN /\ IsSuffix(history', h)
             /\ Last(history') = UserMessage(turn')
             /\ UserCount(h) <= MAX_TURNS => history' = h
             /\ UserCount(h) > MAX_TURNS =>
                  history'[1].role = "user" /\ UserCount(history') = MAX_TURNS
    ]_vars

\* C24 witness: the agent is invoked with a history that was trimmed: it holds
\* MAX_TURNS user messages, the oldest of them not the first input, and tool
\* items between them.
C24_Witness ==
  /\ cli = "run"
  /\ UserCount(history) = MAX_TURNS
  /\ history[1] = UserMessage(turn - MAX_TURNS + 1) /\ turn > MAX_TURNS
  /\ \E i \in DOMAIN history : history[i].role = "tool"

(* ------------------------ a run that raises ---------------------------- *)
FailStep == cli = "run" /\ cli' = "off"

\* C29: the CLI writes the session file only after an agent run has
\* succeeded; when the run raises, the loop ends without a save, so the file
\* holds the history as of the last successful turn and never the user
\* message of a failed turn (SpecCli).
C29_SavedOnlyAfterSuccess ==
  [][/\ FailStep => session' = session /\ UserMessage(turn) \notin Range(session')
     /\ session' # session => cli = "run" /\ cli' = "prompt" /\ session' = history'
     /\ \A t \in failed' : UserMessage(t) \notin Range(session')
    ]_vars

\* C29 witness: a run has raised after earlier turns had succeeded; the CLI
\* has ended and the session file holds those earlier turns.
C29_Witness ==
  /\ cli = "off" /\ turn \in failed
  /\ session # <<>>
  /\ Last(session).turn = turn - 1

(* ------------------------ sessions apart ------------------------------- *)
\* a session's own calls, made one after the other on a new store
RECURSIVE Replay(_)
Replay(log) ==
  IF log = <<>> THEN [store |-> FreshStore, ret |-> RetNone]
  ELSE MemApply(Replay(Front(log)).store, Last(log))

\* C30: each page load gives the session its own InMemoryTodoStorage, and
\* under every interleaving of the calls of two sessions the store a session
\* reads and the result of its last call are what its own calls alone produce
\* (SpecGradio).
C30_SessionsIsolated ==
  /\ \A s \in Sessions :
       gstore[s] # 0 =>
          /\ heap[gstore[s]] = Replay(glog[s]).store
          /\ gret[s] = Replay(glog[s]).ret
  /\ \A s \in Sessions : \A t \in Sessions \ {s} :
       gstore[s] # 0 => gstore[t] # gstore[s]

\* C30 witness: both sessions have created items, and the create of the
\* session that made fewer calls returned id 1 while the other session holds
\* two items.
C30_Witness ==
  \E s \in Sessions : \E t \in Sessions \ {s} :
    /\ gstore[s] # 0 /\ gstore[t] # 0
    /\ Len(heap[gstore[s]].todos) = 2
    /\ Len(glog[t]) = 1
    /\ gret[t].kind = "item" /\ gret[t].item.id = 1

====
